---- MODULE Spec2Model ----
(***************************************************************************)
(* Model of hrv_analysis.py: the three operations get_hrv_percentile,      *)
(* get_5th_percentile_value and get_normative_range over the normative     *)
(* HRV table of Voss et al. (2015).                                        *)
(*                                                                         *)
(* Numbers are fixed point.  mean, sd and user_value are in tenths (the    *)
(* table has one decimal).  z-scores are in units of 1e-4.  A normal CDF   *)
(* value is in units of 1e-9, so that CdfOne stands for 1.0; a percentile  *)
(* (cdf * 100) is the same integer read in units of 1e-7 percent.  Values  *)
(* of the 5th/95th percentile are in units of 1e-5.                        *)
(***************************************************************************)
EXTENDS Integers, Sequences, FiniteSets, TLC

VARIABLES op, args, age_group, result

vars == <<op, args, age_group, result>>

(***************************************************************************)
(* Bounds of the explored inputs.                                          *)
(***************************************************************************)
\* ages are explored from AgeMargin below 25 to AgeMargin above 74
AgeMargin == 2

Ages == ((25 - AgeMargin)..(74 + AgeMargin)) \cup {0, -1}

Genders == {"male", "female", "Male", "FEMALE", "martian"}

Metrics == {"sdNN", "SDNN", "RMSSD", "rmssd", "HF", "hf", "n", "N", "LF"}

(***************************************************************************)
(* str.lower() on the strings the model feeds to the operations.           *)
(***************************************************************************)
Lower(s) ==
  CASE s = "Male" -> "male"
    [] s = "FEMALE" -> "female"
    [] s = "sdNN" -> "sdnn"
    [] s = "SDNN" -> "sdnn"
    [] s = "RMSSD" -> "rmssd"
    [] s = "HF" -> "hf"
    [] s = "N" -> "n"
    [] s = "LF" -> "lf"
    [] OTHER -> s

(***************************************************************************)
(* The three copies of the normative table, one per function.              *)
(***************************************************************************)
hrv_norms ==
  [
    female |-> (
        "25-34" :> [sdNN |-> [mean |-> 454, sd |-> 180],
                    RMSSD |-> [mean |-> 361, sd |-> 184],
                    HF |-> [mean |-> 1610, sd |-> 1670],
                    n |-> 208] @@
        "35-44" :> [sdNN |-> [mean |-> 421, sd |-> 168],
                    RMSSD |-> [mean |-> 307, sd |-> 151],
                    HF |-> [mean |-> 1210, sd |-> 1450],
                    n |-> 259] @@
        "45-54" :> [sdNN |-> [mean |-> 366, sd |-> 147],
                    RMSSD |-> [mean |-> 245, sd |-> 123],
                    HF |-> [mean |-> 620, sd |-> 830],
                    n |-> 158] @@
        "55-64" :> [sdNN |-> [mean |-> 322, sd |-> 135],
                    RMSSD |-> [mean |-> 203, sd |-> 108],
                    HF |-> [mean |-> 350, sd |-> 530],
                    n |-> 95] @@
        "65-74" :> [sdNN |-> [mean |-> 316, sd |-> 136],
                    RMSSD |-> [mean |-> 194, sd |-> 101],
                    HF |-> [mean |-> 290, sd |-> 380],
                    n |-> 62]),
    male |-> (
        "25-34" :> [sdNN |-> [mean |-> 499, sd |-> 198],
                    RMSSD |-> [mean |-> 362, sd |-> 181],
                    HF |-> [mean |-> 1330, sd |-> 1740],
                    n |-> 330] @@
        "35-44" :> [sdNN |-> [mean |-> 448, sd |-> 181],
                    RMSSD |-> [mean |-> 306, sd |-> 154],
                    HF |-> [mean |-> 890, sd |-> 1180],
                    n |-> 292] @@
        "45-54" :> [sdNN |-> [mean |-> 413, sd |-> 176],
                    RMSSD |-> [mean |-> 268, sd |-> 137],
                    HF |-> [mean |-> 410, sd |-> 490],
                    n |-> 235] @@
        "55-64" :> [sdNN |-> [mean |-> 383, sd |-> 170],
                    RMSSD |-> [mean |-> 234, sd |-> 120],
                    HF |-> [mean |-> 290, sd |-> 380],
                    n |-> 183] @@
        "65-74" :> [sdNN |-> [mean |-> 349, sd |-> 159],
                    RMSSD |-> [mean |-> 211, sd |-> 110],
                    HF |-> [mean |-> 220, sd |-> 290],
                    n |-> 84])
  ]

hrv_norms_range ==
  [
    female |-> (
        "25-34" :> [sdNN |-> [mean |-> 454, sd |-> 180], RMSSD |-> [mean |-> 361, sd |-> 184], HF |-> [mean |-> 1610, sd |-> 1670]] @@
        "35-44" :> [sdNN |-> [mean |-> 421, sd |-> 168], RMSSD |-> [mean |-> 307, sd |-> 151], HF |-> [mean |-> 1210, sd |-> 1450]] @@
        "45-54" :> [sdNN |-> [mean |-> 366, sd |-> 147], RMSSD |-> [mean |-> 245, sd |-> 123], HF |-> [mean |-> 620, sd |-> 830]] @@
        "55-64" :> [sdNN |-> [mean |-> 322, sd |-> 135], RMSSD |-> [mean |-> 203, sd |-> 108], HF |-> [mean |-> 350, sd |-> 530]] @@
        "65-74" :> [sdNN |-> [mean |-> 316, sd |-> 136], RMSSD |-> [mean |-> 194, sd |-> 101], HF |-> [mean |-> 290, sd |-> 380]]),
    male |-> (
        "25-34" :> [sdNN |-> [mean |-> 499, sd |-> 198], RMSSD |-> [mean |-> 362, sd |-> 181], HF |-> [mean |-> 1330, sd |-> 1740]] @@
        "35-44" :> [sdNN |-> [mean |-> 448, sd |-> 181], RMSSD |-> [mean |-> 306, sd |-> 154], HF |-> [mean |-> 890, sd |-> 1180]] @@
        "45-54" :> [sdNN |-> [mean |-> 413, sd |-> 176], RMSSD |-> [mean |-> 268, sd |-> 137], HF |-> [mean |-> 410, sd |-> 490]] @@
        "55-64" :> [sdNN |-> [mean |-> 383, sd |-> 170], RMSSD |-> [mean |-> 234, sd |-> 120], HF |-> [mean |-> 290, sd |-> 380]] @@
        "65-74" :> [sdNN |-> [mean |-> 349, sd |-> 159], RMSSD |-> [mean |-> 211, sd |-> 110], HF |-> [mean |-> 220, sd |-> 290]])
  ]

\* hrv_norms_5th with two digits of one mean transposed (45.4 typed as 44.5)
hrv_norms_5th_typo ==
  [g \in DOMAIN hrv_norms_range |->
    [b \in DOMAIN hrv_norms_range[g] |->
      IF g = "female" /\ b = "25-34"
      THEN [hrv_norms_range[g][b] EXCEPT !.sdNN = [mean |-> 445, sd |-> 180]]
      ELSE hrv_norms_range[g][b]]]

hrv_norms_5th ==
  [
    female |-> (
        "25-34" :> [sdNN |-> [mean |-> 454, sd |-> 180], RMSSD |-> [mean |-> 361, sd |-> 184], HF |-> [mean |-> 1610, sd |-> 1670]] @@
        "35-44" :> [sdNN |-> [mean |-> 421, sd |-> 168], RMSSD |-> [mean |-> 307, sd |-> 151], HF |-> [mean |-> 1210, sd |-> 1450]] @@
        "45-54" :> [sdNN |-> [mean |-> 366, sd |-> 147], RMSSD |-> [mean |-> 245, sd |-> 123], HF |-> [mean |-> 620, sd |-> 830]] @@
        "55-64" :> [sdNN |-> [mean |-> 322, sd |-> 135], RMSSD |-> [mean |-> 203, sd |-> 108], HF |-> [mean |-> 350, sd |-> 530]] @@
        "65-74" :> [sdNN |-> [mean |-> 316, sd |-> 136], RMSSD |-> [mean |-> 194, sd |-> 101], HF |-> [mean |-> 290, sd |-> 380]]),
    male |-> (
        "25-34" :> [sdNN |-> [mean |-> 499, sd |-> 198], RMSSD |-> [mean |-> 362, sd |-> 181], HF |-> [mean |-> 1330, sd |-> 1740]] @@
        "35-44" :> [sdNN |-> [mean |-> 448, sd |-> 181], RMSSD |-> [mean |-> 306, sd |-> 154], HF |-> [mean |-> 890, sd |-> 1180]] @@
        "45-54" :> [sdNN |-> [mean |-> 413, sd |-> 176], RMSSD |-> [mean |-> 268, sd |-> 137], HF |-> [mean |-> 410, sd |-> 490]] @@
        "55-64" :> [sdNN |-> [mean |-> 383, sd |-> 170], RMSSD |-> [mean |-> 234, sd |-> 120], HF |-> [mean |-> 290, sd |-> 380]] @@
        "65-74" :> [sdNN |-> [mean |-> 349, sd |-> 159], RMSSD |-> [mean |-> 211, sd |-> 110], HF |-> [mean |-> 220, sd |-> 290]])
  ]

GenderKeys == {"female", "male"}

AgeBands == {"25-34", "35-44", "45-54", "55-64", "65-74"}

\* the value of age_group when the if-chain ends in its else branch
NoGroup == "none"

(***************************************************************************)
(* The if/elif chain that resolves the age group, once per function.       *)
(***************************************************************************)
AgeGroupEstimate(age) ==
  IF 25 <= age /\ age <= 34 THEN "25-34"
  ELSE IF 35 <= age /\ age <= 44 THEN "35-44"
  ELSE IF 45 <= age /\ age <= 54 THEN "45-54"
  ELSE IF 55 <= age /\ age <= 64 THEN "55-64"
  ELSE IF 65 <= age /\ age <= 74 THEN "65-74"
  ELSE NoGroup

\* AgeGroup5th with the first band's upper bound taken as exclusive
AgeGroup5thExclusive(age) ==
  IF 25 <= age /\ age < 34 THEN "25-34"
  ELSE IF 35 <= age /\ age <= 44 THEN "35-44"
  ELSE IF 45 <= age /\ age <= 54 THEN "45-54"
  ELSE IF 55 <= age /\ age <= 64 THEN "55-64"
  ELSE IF 65 <= age /\ age <= 74 THEN "65-74"
  ELSE NoGroup

AgeGroup5th(age) ==
  IF 25 <= age /\ age <= 34 THEN "25-34"
  ELSE IF 35 <= age /\ age <= 44 THEN "35-44"
  ELSE IF 45 <= age /\ age <= 54 THEN "45-54"
  ELSE IF 55 <= age /\ age <= 64 THEN "55-64"
  ELSE IF 65 <= age /\ age <= 74 THEN "65-74"
  ELSE NoGroup

AgeGroupRange(age) ==
  IF 25 <= age /\ age <= 34 THEN "25-34"
  ELSE IF 35 <= age /\ age <= 44 THEN "35-44"
  ELSE IF 45 <= age /\ age <= 54 THEN "45-54"
  ELSE IF 55 <= age /\ age <= 64 THEN "55-64"
  ELSE IF 65 <= age /\ age <= 74 THEN "65-74"
  ELSE NoGroup

(***************************************************************************)
(* metric_mapping.get(hrv_metric.lower(), hrv_metric): a mapped name is    *)
(* canonical, any other name passes through as it was given.               *)
(***************************************************************************)
metric_mapping == [sdnn |-> "sdNN", rmssd |-> "RMSSD", hf |-> "HF"]

NormalizeMetricEstimate(hrv_metric) ==
  IF Lower(hrv_metric) \in DOMAIN metric_mapping
  THEN metric_mapping[Lower(hrv_metric)]
  ELSE hrv_metric

NormalizeMetric5th(hrv_metric) ==
  IF Lower(hrv_metric) \in DOMAIN metric_mapping
  THEN metric_mapping[Lower(hrv_metric)]
  ELSE hrv_metric

NormalizeMetricRange(hrv_metric) ==
  IF Lower(hrv_metric) \in DOMAIN metric_mapping
  THEN metric_mapping[Lower(hrv_metric)]
  ELSE hrv_metric

(***************************************************************************)
(* scipy.stats.norm.cdf in fixed point.  The table holds the CDF at        *)
(* z = 0, 0.1, ..., 5.0 in units of 1e-9; between two entries the value    *)
(* is interpolated.  From z = 5.0 the value climbs to one unit below 1.0,  *)
(* and from CdfSatZ on it is exactly 1.0: in double precision              *)
(* 1 - 0.5*erfc(z/sqrt(2)) rounds to 1.0 for z >= 8.3.  Negative z uses    *)
(* the symmetry of the distribution.  z is in units of 1e-4.               *)
(***************************************************************************)
CdfOne == 1000000000

CdfStep == 1000

CdfTableEnd == 50000

CdfSatZ == 83000

CdfTable ==
  << 500000000, 539827837, 579259709, 617911422, 655421742, 691462461,
     725746882, 758036348, 788144601, 815939875, 841344746, 864333939,
     884930330, 903199515, 919243341, 933192799, 945200708, 955434537,
     964069681, 971283440, 977249868, 982135579, 986096552, 989275890,
     991802464, 993790335, 995338812, 996533026, 997444870, 998134187,
     998650102, 999032397, 999312862, 999516576, 999663071, 999767371,
     999840891, 999892200, 999927652, 999951904, 999968329, 999979342,
     999986654, 999991460, 999994587, 999996602, 999997888, 999998699,
     999999207, 999999521, 999999713 >>

NormCdfUpper(z) ==
  IF z >= CdfSatZ THEN CdfOne
  ELSE IF z >= CdfTableEnd
  THEN CdfTable[Len(CdfTable)]
       + ((z - CdfTableEnd) * (CdfOne - 1 - CdfTable[Len(CdfTable)]))
         \div (CdfSatZ - CdfTableEnd)
  ELSE LET i == (z \div CdfStep) + 1
           f == z % CdfStep
           d == CdfTable[i + 1] - CdfTable[i]
       IN  CdfTable[i] + (f * (d \div CdfStep)) + ((f * (d % CdfStep)) \div CdfStep)

NormCdf(z) ==
  IF z >= 0 THEN NormCdfUpper(z) ELSE CdfOne - NormCdfUpper(0 - z)

(***************************************************************************)
(* scipy.stats.norm.ppf at the two probabilities the code asks for, in     *)
(* units of 1e-4: ppf(0.05) = -1.6449, ppf(0.95) = 1.6449.                 *)
(***************************************************************************)
NormPpf(percent) ==
  CASE percent = 5 -> 0 - 16449
    [] percent = 95 -> 16449

(***************************************************************************)
(* scipy.stats.t.ppf(0.975, df) in thousandths, by the Cornish-Fisher      *)
(* expansion around the normal quantile 1.960:                             *)
(*   t = z + (z^3 + z)/(4 df) + (5 z^5 + 16 z^3 + 3 z)/(96 df^2).          *)
(***************************************************************************)
TPpf975(df) == 1960 + (2372 \div df) + (2823 \div (df * df))

(***************************************************************************)
(* math.sqrt(n) in thousandths: the integer square root of n * 10^6.       *)
(***************************************************************************)
RECURSIVE ISqrtBetween(_, _, _)
ISqrtBetween(x, lo, hi) ==
  IF lo >= hi THEN lo
  ELSE LET mid == (lo + hi + 1) \div 2
       IN  IF mid * mid <= x THEN ISqrtBetween(x, mid, hi)
           ELSE ISqrtBetween(x, lo, mid - 1)

Sqrt(n) == ISqrtBetween(n * 1000000, 0, 32000)

\* ZScore with the operands of the subtraction exchanged
ZScoreReversed(user_value, mean, sd) == ((mean - user_value) * 10000) \div sd

\* z_score = (user_value - mean) / sd, in units of 1e-4
ZScore(user_value, mean, sd) == ((user_value - mean) * 10000) \div sd

\* sem = sd / math.sqrt(n), in units of 1e-4
Sem(sd, n) == (sd * 1000000) \div Sqrt(n)

\* PercentileBounds with the two ends of the band of the mean exchanged
PercentileBoundsSwapped(user_value, mean, sd, n) ==
  LET sem == Sem(sd, n)
      df == n - 1
      t_critical == TPpf975(df)
      ci_lower_mean == (mean * 1000) - ((t_critical * sem) \div 1000)
      ci_upper_mean == (mean * 1000) + ((t_critical * sem) \div 1000)
      z_lower == (((user_value * 1000) - ci_lower_mean) * 10) \div sd
      z_upper == (((user_value * 1000) - ci_upper_mean) * 10) \div sd
  IN  [percentile_lower |-> NormCdf(z_lower),
       percentile_upper |-> NormCdf(z_upper)]

(***************************************************************************)
(* The confidence band of the mean and the percentiles at its ends.        *)
(* ci_lower_mean and ci_upper_mean are in units of 1e-4.                   *)
(***************************************************************************)
PercentileBounds(user_value, mean, sd, n) ==
  LET sem == Sem(sd, n)
      df == n - 1
      t_critical == TPpf975(df)
      ci_lower_mean == (mean * 1000) - ((t_critical * sem) \div 1000)
      ci_upper_mean == (mean * 1000) + ((t_critical * sem) \div 1000)
      z_lower == (((user_value * 1000) - ci_upper_mean) * 10) \div sd
      z_upper == (((user_value * 1000) - ci_lower_mean) * 10) \div sd
  IN  [percentile_lower |-> NormCdf(z_lower),
       percentile_upper |-> NormCdf(z_upper)]

\* Reliability with the bound of Moderate taken as inclusive
ReliabilityInclusive(n) ==
  IF n < 50 THEN "Low"
  ELSE IF n <= 100 THEN "Moderate"
  ELSE IF n < 200 THEN "Good"
  ELSE "High"

\* the reliability label from the sample size
Reliability(n) ==
  IF n < 50 THEN "Low"
  ELSE IF n < 100 THEN "Moderate"
  ELSE IF n < 200 THEN "Good"
  ELSE "High"

\* the small-sample warning is appended to the text when n < 100
SmallSampleWarning(n) == n < 100

\* the format {x:.1f} of a percentile: tenths of a percent
FormatPercentile(p) == (p + 500000) \div 1000000

\* the format {x:.1f} of a range bound: tenths
FormatBound(x) == (x + 5000) \div 10000

(***************************************************************************)
(* get_hrv_percentile.  group_data has the metric entries and the key 'n'; *)
(* group_data['n'] is an int, and metric_data['mean'] on an int raises     *)
(* TypeError, which `except KeyError` does not catch.                      *)
(***************************************************************************)
get_hrv_percentile(age, gender, hrv_metric, user_value) ==
  LET group == AgeGroupEstimate(age)
      g == Lower(gender)
      normalized_metric == NormalizeMetricEstimate(hrv_metric)
  IN
  IF group = NoGroup
  THEN [age_group |-> NoGroup, result |-> [kind |-> "OutOfRange"]]
  ELSE IF g \notin {"male", "female"}
  THEN [age_group |-> group, result |-> [kind |-> "InvalidGender"]]
  ELSE
    LET group_data == hrv_norms[g][group] IN
    IF normalized_metric \notin DOMAIN group_data
    THEN [age_group |-> group,
          result |-> [kind |-> "MetricUnavailable", hrv_metric |-> hrv_metric,
                      gender |-> g, age_group |-> group]]
    ELSE IF normalized_metric = "n"
    THEN [age_group |-> group, result |-> [kind |-> "TypeError"]]
    ELSE
      LET metric_data == group_data[normalized_metric]
          mean == metric_data.mean
          sd == metric_data.sd
          n == group_data.n
      IN
      IF sd = 0
      THEN [age_group |-> group, result |-> [kind |-> "DegenerateVariance"]]
      ELSE
        LET percentile == NormCdf(ZScore(user_value, mean, sd))
            b == PercentileBounds(user_value, mean, sd, n)
        IN [age_group |-> group,
            result |->
              [kind |-> "success",
               percentile |-> percentile,
               percentile_lower |-> b.percentile_lower,
               percentile_upper |-> b.percentile_upper,
               text_percentile |-> FormatPercentile(percentile),
               text_lower |-> FormatPercentile(b.percentile_lower),
               text_upper |-> FormatPercentile(b.percentile_upper),
               n |-> n,
               reliability |-> Reliability(n),
               warning |-> SmallSampleWarning(n)]]

Max(a, b) == IF a >= b THEN a ELSE b

\* NonNegative without the clamp
NonNegativeUnclamped(x) == x

\* max(0, percentile_5th_value)
NonNegative(x) == Max(0, x)

\* the value get_5th_percentile_value and get_normative_range return on a miss
None == [kind |-> "None"]

(***************************************************************************)
(* get_5th_percentile_value: mean + ppf(0.05) * sd, not below 0, in units  *)
(* of 1e-5; None for an age outside the bands or a KeyError in the lookup  *)
(* (unknown gender or metric).                                             *)
(***************************************************************************)
get_5th_percentile_value(age, gender, hrv_metric) ==
  LET group == AgeGroup5th(age)
      g == Lower(gender)
      normalized_metric == NormalizeMetric5th(hrv_metric)
  IN
  IF group = NoGroup THEN [age_group |-> NoGroup, result |-> None]
  ELSE IF g \notin DOMAIN hrv_norms_5th
  THEN [age_group |-> group, result |-> None]
  ELSE IF normalized_metric \notin DOMAIN hrv_norms_5th[g][group]
  THEN [age_group |-> group, result |-> None]
  ELSE
    LET data == hrv_norms_5th[g][group][normalized_metric]
        z_score_5th == NormPpf(5)
        percentile_5th_value == (data.mean * 10000) + (z_score_5th * data.sd)
    IN [age_group |-> group,
        result |-> [kind |-> "number", value |-> NonNegative(percentile_5th_value)]]

\* MinThreshold with the thresholds of RMSSD and HF exchanged
MinThresholdExchanged(normalized_metric) ==
  IF normalized_metric \in {"RMSSD", "HF"}
  THEN IF normalized_metric = "RMSSD" THEN 500000 ELSE 100000
  ELSE 10000

(***************************************************************************)
(* The lower threshold of get_normative_range, in units of 1e-5:           *)
(* 1.0 for RMSSD, 5.0 for HF, 0.1 otherwise.                               *)
(***************************************************************************)
MinThreshold(normalized_metric) ==
  IF normalized_metric \in {"RMSSD", "HF"}
  THEN IF normalized_metric = "RMSSD" THEN 100000 ELSE 500000
  ELSE 10000

(***************************************************************************)
(* get_normative_range: the 5th percentile not below the threshold and the *)
(* 95th percentile, formatted to one decimal; None on a miss.              *)
(***************************************************************************)
get_normative_range(age, gender, hrv_metric) ==
  LET group == AgeGroupRange(age)
      g == Lower(gender)
      normalized_metric == NormalizeMetricRange(hrv_metric)
  IN
  IF group = NoGroup THEN [age_group |-> NoGroup, result |-> None]
  ELSE IF g \notin DOMAIN hrv_norms_range
  THEN [age_group |-> group, result |-> None]
  ELSE IF normalized_metric \notin DOMAIN hrv_norms_range[g][group]
  THEN [age_group |-> group, result |-> None]
  ELSE
    LET data == hrv_norms_range[g][group][normalized_metric]
        mean == data.mean
        sd == data.sd
        z_5th == NormPpf(5)
        z_95th == NormPpf(95)
        percentile_5th == Max(MinThreshold(normalized_metric),
                              (mean * 10000) + (z_5th * sd))
        percentile_95th == (mean * 10000) + (z_95th * sd)
    IN [age_group |-> group,
        result |-> [kind |-> "range",
                    hrv_metric |-> hrv_metric,
                    percentile_5th |-> percentile_5th,
                    percentile_95th |-> percentile_95th,
                    text_5th |-> FormatBound(percentile_5th),
                    text_95th |-> FormatBound(percentile_95th)]]

(***************************************************************************)
(* The user values fed to get_hrv_percentile, in tenths: 0, 50.0, every    *)
(* mean of the table, and two values far in the upper tail of every group. *)
(***************************************************************************)
TableMeans ==
  { hrv_norms[g][b][m].mean :
      g \in GenderKeys, b \in AgeBands, m \in {"sdNN", "RMSSD", "HF"} }

UserValues == {0, 500, 50000, 90000} \cup TableMeans

NoArgs == [age |-> 0]

NoResult == [kind |-> "none"]

Init ==
  /\ op = "none"
  /\ args = NoArgs
  /\ age_group = NoGroup
  /\ result = NoResult

CallGetHrvPercentile ==
  /\ op = "none"
  /\ \E age \in Ages, gender \in Genders, hrv_metric \in Metrics,
        user_value \in UserValues :
       LET r == get_hrv_percentile(age, gender, hrv_metric, user_value) IN
       /\ op' = "get_hrv_percentile"
       /\ args' = [age |-> age, gender |-> gender, hrv_metric |-> hrv_metric,
                   user_value |-> user_value]
       /\ age_group' = r.age_group
       /\ result' = r.result

CallGet5thPercentileValue ==
  /\ op = "none"
  /\ \E age \in Ages, gender \in Genders, hrv_metric \in Metrics :
       LET r == get_5th_percentile_value(age, gender, hrv_metric) IN
       /\ op' = "get_5th_percentile_value"
       /\ args' = [age |-> age, gender |-> gender, hrv_metric |-> hrv_metric]
       /\ age_group' = r.age_group
       /\ result' = r.result

CallGetNormativeRange ==
  /\ op = "none"
  /\ \E age \in Ages, gender \in Genders, hrv_metric \in Metrics :
       LET r == get_normative_range(age, gender, hrv_metric) IN
       /\ op' = "get_normative_range"
       /\ args' = [age |-> age, gender |-> gender, hrv_metric |-> hrv_metric]
       /\ age_group' = r.age_group
       /\ result' = r.result

\* the caller is done with the value; nothing of the call is kept
Return ==
  /\ op # "none"
  /\ op' = "none"
  /\ args' = NoArgs
  /\ age_group' = NoGroup
  /\ result' = NoResult

Next ==
  \/ CallGetHrvPercentile
  \/ CallGet5thPercentileValue
  \/ CallGetNormativeRange
  \/ Return

Spec == Init /\ [][Next]_vars

TypeOK ==
  /\ op \in {"none", "get_hrv_percentile", "get_5th_percentile_value",
             "get_normative_range"}
  /\ age_group \in AgeBands \cup {NoGroup}
  /\ result.kind \in {"none", "success", "OutOfRange", "InvalidGender",
                      "MetricUnavailable", "DegenerateVariance", "TypeError",
                      "None", "number", "range"}

(***************************************************************************)
(* Vocabulary of the properties.                                           *)
(***************************************************************************)
ValidAge(age) == 25 <= age /\ age <= 74

ValidGender(gender) == Lower(gender) \in {"male", "female"}

KnownMetric(hrv_metric) == Lower(hrv_metric) \in {"sdnn", "rmssd", "hf"}

ValidKey == ValidAge(args.age) /\ ValidGender(args.gender) /\ KnownMetric(args.hrv_metric)

CanonicalMetric(hrv_metric) ==
  CASE Lower(hrv_metric) = "sdnn" -> "sdNN"
    [] Lower(hrv_metric) = "rmssd" -> "RMSSD"
    [] Lower(hrv_metric) = "hf" -> "HF"

\* the inclusive bounds of the five bands
BandBounds ==
  "25-34" :> <<25, 34>> @@ "35-44" :> <<35, 44>> @@ "45-54" :> <<45, 54>> @@
  "55-64" :> <<55, 64>> @@ "65-74" :> <<65, 74>>

BandsOf(age) == {b \in AgeBands : BandBounds[b][1] <= age /\ age <= BandBounds[b][2]}

Called == op # "none"

Estimated == op = "get_hrv_percentile"

ValueFields ==
  {"percentile", "percentile_lower", "percentile_upper", "text_percentile",
   "text_lower", "text_upper", "n", "reliability", "warning"}

(***************************************************************************)
(* C1: for a metric name that does not normalize to sdNN, RMSSD or HF,     *)
(* with a valid age and gender, each of the three operations ends in a     *)
(* lookup miss (MetricUnavailable from get_hrv_percentile, None from the   *)
(* two range operations), never in an exception.                           *)
(***************************************************************************)
C1_UnknownMetricIsMiss ==
  (Called /\ ValidAge(args.age) /\ ValidGender(args.gender)
     /\ ~KnownMetric(args.hrv_metric))
  => IF Estimated THEN result.kind = "MetricUnavailable" ELSE result = None

(***************************************************************************)
(* C2: every call of get_hrv_percentile ends in exactly one of success,    *)
(* OutOfRange, InvalidGender, MetricUnavailable, DegenerateVariance; the   *)
(* first failing check in the order age, gender, metric, sd decides; a     *)
(* failing call carries no percentile, CI or reliability value.            *)
(***************************************************************************)
C2_Classification ==
  IF ~ValidAge(args.age) THEN "OutOfRange"
  ELSE IF ~ValidGender(args.gender) THEN "InvalidGender"
  ELSE IF ~KnownMetric(args.hrv_metric) THEN "MetricUnavailable"
  ELSE IF hrv_norms[Lower(args.gender)][AgeGroupEstimate(args.age)]
            [CanonicalMetric(args.hrv_metric)].sd = 0
  THEN "DegenerateVariance"
  ELSE "success"

C2_OneOutcomeInOrder ==
  Estimated =>
    /\ result.kind \in {"success", "OutOfRange", "InvalidGender",
                        "MetricUnavailable", "DegenerateVariance"}
    /\ result.kind = C2_Classification
    /\ result.kind # "success" => DOMAIN result \cap ValueFields = {}

(***************************************************************************)
(* C3 as stated: every age in 25..74 falls in exactly one band by          *)
(* inclusive bounds, and in all three operations any other age is reported *)
(* as an out-of-range condition that differs from the result of a table    *)
(* miss.                                                                   *)
(***************************************************************************)
C3_OutOfRangeDistinctFromMiss ==
  Called =>
    /\ ValidAge(args.age) => BandsOf(args.age) = {age_group}
    /\ ~ValidAge(args.age) =>
         /\ age_group = NoGroup
         /\ IF Estimated
            THEN result.kind = "OutOfRange"
            ELSE result # None

(***************************************************************************)
(* C3 amended: every age in 25..74 falls in exactly one band by inclusive  *)
(* bounds in all three operations; any other age is rejected before the    *)
(* lookup: get_hrv_percentile reports OutOfRange, which differs from       *)
(* MetricUnavailable, while get_5th_percentile_value and                   *)
(* get_normative_range return None, the value they also return on a table  *)
(* miss.                                                                   *)
(***************************************************************************)
C3_AgeBands ==
  Called =>
    /\ ValidAge(args.age) =>
         /\ BandsOf(args.age) = {age_group}
         /\ Estimated => result.kind # "OutOfRange"
    /\ ~ValidAge(args.age) =>
         /\ age_group = NoGroup
         /\ IF Estimated
            THEN result.kind = "OutOfRange"
            ELSE result = None

C3_Witness ==
  /\ op = "get_5th_percentile_value"
  /\ args.age = 75
  /\ age_group = NoGroup
  /\ result = None

Succeeded == Estimated /\ result.kind = "success"

(***************************************************************************)
(* C4: the reliability of a successful estimate depends on n alone: Low    *)
(* for n < 50, Moderate for 50 <= n < 100, Good for 100 <= n < 200, High   *)
(* for n >= 200, with 49, 50, 99, 100, 199, 200 on the sides stated; the   *)
(* small-sample warning is attached exactly when the tier is Low or        *)
(* Moderate.                                                               *)
(***************************************************************************)
TierBoundaries ==
  49 :> "Low" @@ 50 :> "Moderate" @@ 99 :> "Moderate" @@ 100 :> "Good" @@
  199 :> "Good" @@ 200 :> "High"

C4_ReliabilityFromN ==
  /\ \A n \in DOMAIN TierBoundaries : Reliability(n) = TierBoundaries[n]
  /\ Succeeded =>
       /\ result.n = hrv_norms[Lower(args.gender)][age_group].n
       /\ result.reliability = "Low" <=> result.n < 50
       /\ result.reliability = "Moderate" <=> (50 <= result.n /\ result.n < 100)
       /\ result.reliability = "Good" <=> (100 <= result.n /\ result.n < 200)
       /\ result.reliability = "High" <=> result.n >= 200
       /\ result.warning <=> result.reliability \in {"Low", "Moderate"}

C4_Witness ==
  /\ Succeeded
  /\ result.n = 95
  /\ result.reliability = "Moderate"
  /\ result.warning

(***************************************************************************)
(* C5: for every valid key and user value the result of get_hrv_percentile *)
(* has percentile_lower <= percentile <= percentile_upper.                 *)
(***************************************************************************)
C5_BandBracketsEstimate ==
  (Estimated /\ ValidKey) =>
    /\ result.kind = "success"
    /\ result.percentile_lower <= result.percentile
    /\ result.percentile <= result.percentile_upper
    /\ result.text_lower <= result.text_percentile
    /\ result.text_percentile <= result.text_upper

C5_Witness ==
  /\ Succeeded
  /\ result.percentile_lower < result.percentile
  /\ result.percentile < result.percentile_upper

\* the percentile get_hrv_percentile gives for the key of the last call and value v
PercentileAt(v) ==
  get_hrv_percentile(args.age, args.gender, args.hrv_metric, v).result.percentile

GroupMean ==
  hrv_norms[Lower(args.gender)][age_group][CanonicalMetric(args.hrv_metric)].mean

(***************************************************************************)
(* C6 as stated: for a fixed valid key the percentile is strictly          *)
(* increasing in user_value, and the group mean is at percentile 50.       *)
(***************************************************************************)
C6_StrictlyIncreasing ==
  Succeeded =>
    /\ \A v \in UserValues : args.user_value < v => result.percentile < PercentileAt(v)
    /\ args.user_value = GroupMean => result.percentile * 2 = CdfOne

(***************************************************************************)
(* C6 amended: for a fixed valid key the percentile is non-decreasing in   *)
(* user_value (v1 < v2 gives percentile(v1) <= percentile(v2); values far  *)
(* in the upper tail all get 100), and the group mean is at percentile 50. *)
(***************************************************************************)
C6_NonDecreasing ==
  Succeeded =>
    /\ \A v \in UserValues : args.user_value < v => result.percentile <= PercentileAt(v)
    /\ args.user_value = GroupMean => result.percentile * 2 = CdfOne

C6_Witness ==
  /\ Succeeded
  /\ args.user_value = GroupMean
  /\ result.text_percentile = 500
  /\ \E v \in UserValues : args.user_value < v /\ result.percentile < PercentileAt(v)

\* the floor of the lower bound of the range per canonical metric, units of 1e-5
RangeFloor == [RMSSD |-> 100000, HF |-> 500000, sdNN |-> 10000]

\* mean + z * sd for the key of the last call, from the table of get_normative_range
RangeRaw(z) ==
  LET e == hrv_norms_range[Lower(args.gender)][age_group][CanonicalMetric(args.hrv_metric)]
  IN  (e.mean * 10000) + (z * e.sd)

(***************************************************************************)
(* C7: for every valid key get_normative_range returns                     *)
(* p5 = max(floor, mean + z5*sd) with floor 1.0 for RMSSD, 5.0 for HF and  *)
(* 0.1 for sdNN, so p5 is never below the floor; p95 = mean + z95*sd with  *)
(* no floor or clamp; and p5 <= p95.                                       *)
(***************************************************************************)
C7_RangeFloor ==
  (op = "get_normative_range" /\ ValidKey) =>
    LET floor == RangeFloor[CanonicalMetric(args.hrv_metric)]
        raw5 == RangeRaw(0 - 16449)
        raw95 == RangeRaw(16449)
    IN  /\ result.kind = "range"
        /\ result.percentile_5th = (IF raw5 >= floor THEN raw5 ELSE floor)
        /\ result.percentile_5th >= floor
        /\ result.text_5th * 10000 >= floor
        /\ result.percentile_95th = raw95
        /\ result.percentile_5th <= result.percentile_95th
        /\ result.text_5th <= result.text_95th

C7_Witness ==
  /\ op = "get_normative_range"
  /\ ValidKey
  /\ CanonicalMetric(args.hrv_metric) = "HF"
  /\ result.kind = "range"
  /\ RangeRaw(0 - 16449) < 500000
  /\ result.percentile_5th = 500000
  /\ result.percentile_95th > 500000

\* mean + z5 * sd for the key of the last call, from the table of get_5th_percentile_value
SingleRaw ==
  LET e == hrv_norms_5th[Lower(args.gender)][age_group][CanonicalMetric(args.hrv_metric)]
  IN  (e.mean * 10000) - (16449 * e.sd)

(***************************************************************************)
(* C9: for every valid key get_5th_percentile_value returns                *)
(* max(0, mean + z5*sd) and get_normative_range returns                    *)
(* max(floor, mean + z5*sd) for the same key: the range's p5 is never      *)
(* below the single bound, the two agree exactly when mean + z5*sd is at   *)
(* least the floor, for every HF entry the single bound is 0 and the       *)
(* range's p5 is 5.0, and a returned number, 0 included, is not None.      *)
(***************************************************************************)
C9_TwoFloors ==
  (op = "get_5th_percentile_value" /\ ValidKey) =>
    LET floor == RangeFloor[CanonicalMetric(args.hrv_metric)]
        range == get_normative_range(args.age, args.gender, args.hrv_metric).result
    IN  /\ result.kind = "number"
        /\ result # None
        /\ result.value = (IF SingleRaw >= 0 THEN SingleRaw ELSE 0)
        /\ range.kind = "range"
        /\ range.percentile_5th >= result.value
        /\ (range.percentile_5th = result.value) <=> (SingleRaw >= floor)
        /\ CanonicalMetric(args.hrv_metric) = "HF" =>
             (result.value = 0 /\ range.percentile_5th = 500000)

C9_Witness ==
  /\ op = "get_5th_percentile_value"
  /\ ValidKey
  /\ CanonicalMetric(args.hrv_metric) = "HF"
  /\ result.kind = "number"
  /\ result.value = 0
  /\ get_normative_range(args.age, args.gender, args.hrv_metric).result.percentile_5th = 500000

(***************************************************************************)
(* C10: the three copies of the table are complete and equal: for each of  *)
(* the 2 genders x 5 bands x 3 metrics all three operations resolve an     *)
(* entry with the same mean and the same sd, every sd is > 0 and every n   *)
(* is >= 1, so for a valid key no operation returns a miss and             *)
(* get_hrv_percentile never returns DegenerateVariance.                    *)
(***************************************************************************)
C10_TablesAgree ==
  (Called /\ ValidKey) =>
    LET g == Lower(args.gender)
        m == CanonicalMetric(args.hrv_metric)
    IN  /\ g \in DOMAIN hrv_norms /\ g \in DOMAIN hrv_norms_5th
             /\ g \in DOMAIN hrv_norms_range
        /\ age_group \in DOMAIN hrv_norms[g] /\ age_group \in DOMAIN hrv_norms_5th[g]
             /\ age_group \in DOMAIN hrv_norms_range[g]
        /\ m \in DOMAIN hrv_norms[g][age_group]
             /\ m \in DOMAIN hrv_norms_5th[g][age_group]
             /\ m \in DOMAIN hrv_norms_range[g][age_group]
        /\ hrv_norms_5th[g][age_group][m] = hrv_norms[g][age_group][m]
        /\ hrv_norms_range[g][age_group][m] = hrv_norms[g][age_group][m]
        /\ hrv_norms[g][age_group][m].sd > 0
        /\ hrv_norms[g][age_group].n >= 1
        /\ result.kind = (CASE op = "get_hrv_percentile" -> "success"
                            [] op = "get_5th_percentile_value" -> "number"
                            [] op = "get_normative_range" -> "range")

C10_Witness ==
  /\ op = "get_5th_percentile_value"
  /\ ValidKey
  /\ result.kind = "number"
  /\ result.value = SingleRaw
  /\ SingleRaw = (hrv_norms[Lower(args.gender)][age_group]
                    [CanonicalMetric(args.hrv_metric)].mean * 10000)
                 - (16449 * hrv_norms[Lower(args.gender)][age_group]
                      [CanonicalMetric(args.hrv_metric)].sd)

====
